---------------------------- MODULE Spec2Model ----------------------------
(***************************************************************************)
(* fast-ok-server (src/src/fast-ok-server.go): the request handler h, the  *)
(* shared counter registry (totalRequests, totalBytes, methods, hostMap)   *)
(* and the statistics reporter goroutine.                                  *)
(*                                                                         *)
(* Every handler execution is a process whose steps are the handler's      *)
(* accesses to shared memory, one atomic operation per step; computation   *)
(* on locals is folded into the shared access that follows it.  The        *)
(* reporter goroutine is one more process, stepping through its atomic     *)
(* loads.  Strings are sequences of one-character strings, so that         *)
(* strings.ToLower and len() are computed and not assumed.                 *)
(* Durations are counted in milliseconds.  An unrecovered panic in any     *)
(* goroutine ends a Go process: once panicMsg is set nothing runs.         *)
(***************************************************************************)
EXTENDS Integers, Sequences, FiniteSets, TLC

\* ------------------------------------------------------------------ bounds

\* handler executions (requests) in one run of the process
MaxHandlers == 2

\* reporter ticks in one run of the process
MaxTicks == 2

\* ------------------------------------------------------------- constants

\* estReqLine := 11
estReqLine == 11

\* time.Second, in the model's unit (milliseconds)
MsPerSecond == 1000

\* -------------------------------------------------------------- strings

UpperCase == <<"A","B","C","D","E","F","G","H","I","J","K","L","M",
               "N","O","P","Q","R","S","T","U","V","W","X","Y","Z">>

LowerCase == <<"a","b","c","d","e","f","g","h","i","j","k","l","m",
               "n","o","p","q","r","s","t","u","v","w","x","y","z">>

\* the upper-case letters
Uppers == { UpperCase[i] : i \in 1..Len(UpperCase) }

IsUpper(c) == c \in Uppers

\* the lower-case letter of each upper-case one
LowerOf == [c \in Uppers |->
              LowerCase[CHOOSE i \in 1..Len(UpperCase) : UpperCase[i] = c]]

\* unicode.ToLower on one character of the alphabet in use
LowerChar(c) == IF IsUpper(c) THEN LowerOf[c] ELSE c

\* strings.ToLower
ToLower(s) == [i \in 1..Len(s) |-> LowerChar(s[i])]

\* the literal "(no-host)"
NoHost == <<"(","n","o","-","h","o","s","t",")">>

\* fasthttp.MethodGet, fasthttp.MethodPost
MethodGet == <<"G","E","T">>

MethodPost == <<"P","O","S","T">>

\* ------------------------------------------------------ request classifier

\* mutant: the host is not lower-cased
HostKey_NoLower(rawHost) ==
    IF rawHost = <<>> THEN NoHost ELSE rawHost

\* host := strings.ToLower(string(ctx.Host())); if host == "" { host = "(no-host)" }
HostKey(rawHost) ==
    LET host == ToLower(rawHost)
    IN  IF host = <<>> THEN NoHost ELSE host

\* mutant: the request-line overhead is left out
ReqSize_NoOverhead(r) ==
    r.headersLen + r.bodyLen + Len(r.method) + r.uriLen

\* reqSize := uint64(headersLen + bodyLen + methodLen + uriLen + estReqLine)
ReqSize(r) ==
    r.headersLen + r.bodyLen + Len(r.method) + r.uriLen + estReqLine

\* mutant: the method is compared ignoring case
MethodCategory_CaseInsensitive(method) ==
    IF ToLower(method) = ToLower(MethodGet) THEN "get"
    ELSE IF ToLower(method) = ToLower(MethodPost) THEN "post"
    ELSE "other"

\* switch string(ctx.Method()) { case MethodGet ... case MethodPost ... default }
MethodCategory(method) ==
    IF method = MethodGet THEN "get"
    ELSE IF method = MethodPost THEN "post"
    ELSE "other"

\* ------------------------------------------------------------------ inputs

\* the requests a client may send: raw host, method, header block length,
\* body length, request URI length
Requests ==
    { [rawHost |-> <<>>, method |-> MethodGet,
       headersLen |-> 10, bodyLen |-> 0, uriLen |-> 1],
      [rawHost |-> <<"E","x","a","m","p","l","e",".","C","O","M">>,
       method |-> MethodPost,
       headersLen |-> 100, bodyLen |-> 50, uriLen |-> 20],
      [rawHost |-> <<"e","x","a","m","p","l","e",".","c","o","m">>,
       method |-> <<"g","e","t">>,
       headersLen |-> 0, bodyLen |-> 0, uriLen |-> 1] }

\* -stats values (milliseconds): sub-second, and the default 2 s
Intervals == {500, 2000}

\* -top values: a negative one, and one below the number of hosts in use
Tops == {-1, 1}

Handlers == 1..MaxHandlers

\* no *hostStats
NoPtr == 0

NoRequest == [rawHost |-> <<>>, method |-> <<>>,
              headersLen |-> 0, bodyLen |-> 0, uriLen |-> 0]

\* hostStats{}
ZeroStats == [requests |-> 0, bytes |-> 0]

\* ------------------------------------------------------------------- state

VARIABLES
    totalRequests,  \* var totalRequests uint64
    totalBytes,     \* var totalBytes uint64
    methods,        \* var methods methodStats
    hostMap,        \* var hostMap sync.Map: host key -> *hostStats
    heap,           \* the hostStats objects allocated so far, by pointer
    pc,             \* each handler's position
    req,            \* each handler's request (ctx)
    host,           \* handler local: host
    reqSize,        \* handler local: reqSize
    v,              \* handler local: v (a pointer), NoPtr when Load missed
    resp,           \* the response set on ctx
    interval,       \* reporter parameter: interval (ms)
    top,            \* reporter parameter: top
    rpc,            \* the reporter's position
    ticks,          \* ticks delivered by time.Tick so far
    prevSnapshots,  \* reporter: prevSnapshots map[string]hostStats
    prevTotalReq,   \* reporter: prevTotalReq
    prevTotalBytes, \* reporter: prevTotalBytes
    loc,            \* reporter: the locals of the tick under way
    items,          \* reporter: items
    visited,        \* hostMap.Range: the keys already passed to the callback
    present,        \* hostMap.Range: the keys stored when Range was called
    printed,        \* the log lines of the tick under way
    panicMsg,       \* the runtime panic that ended the process, "" if none
    mpc,            \* main: its position from <-stop on
    shutdownErr,    \* main: whether server.Shutdown() returned an error
    finalReq,       \* main local: currReq of the final report
    finals,         \* the "final totals" lines printed so far
    sumDr,          \* history: the sum of dr over the ticks so far
    sumDb,          \* history: the sum of db over the ticks so far
    hostDeltaSum,   \* history: per host, the sums of dreq and dbytes so far
    tickDelta,      \* history: host -> dreq, the positive ones of this tick
    overlapped      \* history: a handler has run while a tick was under way

registry == <<totalRequests, totalBytes, methods, hostMap, heap>>

handlerVars == <<pc, req, host, reqSize, v, resp>>

config == <<interval, top>>

reporterVars == <<rpc, ticks, prevSnapshots, prevTotalReq, prevTotalBytes,
                  loc, items, visited, present, printed>>

mainVars == <<mpc, shutdownErr, finalReq, finals>>

\* history variables: written by the reporter's steps, read by no step
history == <<sumDr, sumDb, hostDeltaSum, tickDelta>>

vars == <<registry, handlerVars, config, reporterVars, panicMsg, mainVars,
          history, overlapped>>

\* the reporter's locals outside a tick
NoLocals ==
    [currTotalReq |-> 0, currTotalBytes |-> 0, dr |-> 0, db |-> 0,
     avg |-> <<0, 1>>, mg |-> 0, mp |-> 0, mo |-> 0,
     h |-> <<>>, hs |-> NoPtr, currReq |-> 0]

NoOutput == [summary |-> <<>>, hosts |-> <<>>]

\* the process runs: no goroutine has panicked and main has not returned
Running == panicMsg = "" /\ mpc # "exited"

\* the handlers part-way through a request
InFlight == { h \in Handlers : pc[h] \notin {"idle", "done"} }

\* the listener accepts connections: server.Shutdown() has not closed it
Accepting == mpc \in {"L203", "L205"} \/ shutdownErr

Init ==
    /\ totalRequests = 0
    /\ totalBytes = 0
    /\ methods = [get |-> 0, post |-> 0, other |-> 0]
    /\ hostMap = <<>>
    /\ heap = <<>>
    /\ pc = [h \in Handlers |-> "idle"]
    /\ req = [h \in Handlers |-> NoRequest]
    /\ host = [h \in Handlers |-> <<>>]
    /\ reqSize = [h \in Handlers |-> 0]
    /\ v = [h \in Handlers |-> NoPtr]
    /\ resp = [h \in Handlers |-> [status |-> 0, contentType |-> "", body |-> ""]]
    /\ interval \in Intervals
    /\ top \in Tops
    /\ rpc = "idle"
    /\ ticks = 0
    /\ prevSnapshots = <<>>
    /\ prevTotalReq = 0
    /\ prevTotalBytes = 0
    /\ loc = NoLocals
    /\ items = <<>>
    /\ visited = {}
    /\ present = {}
    /\ printed = NoOutput
    /\ panicMsg = ""
    /\ mpc = "L203"
    /\ shutdownErr = FALSE
    /\ finalReq = 0
    /\ finals = <<>>
    /\ sumDr = 0
    /\ sumDb = 0
    /\ hostDeltaSum = <<>>
    /\ tickDelta = <<>>
    /\ overlapped = FALSE

\* ------------------------------------------------------- atomic primitives

\* atomic.AddUint64(&x, delta): the new value of x (the counters of a run
\* within the bounds stay far below 2^64)
AtomicAddUint64(x, delta) == x + delta

\* sync.Map.Load: the pointer stored under key, NoPtr when there is none
MapLoad(m, key) == IF key \in DOMAIN m THEN m[key] ELSE NoPtr

\* mutant: an insert that rebuilds the map from the new entry alone
MapLoadOrStore_Clobber(m, key, ptr) ==
    IF key \in DOMAIN m THEN m ELSE [k \in {key} |-> ptr]

\* sync.Map.LoadOrStore: the map afterwards
MapLoadOrStore(m, key, ptr) ==
    IF key \in DOMAIN m THEN m
    ELSE [k \in DOMAIN m \cup {key} |-> IF k = key THEN ptr ELSE m[k]]

\* ----------------------------------------------------------- the handler h

\* mutant: line 67 names &totalRequests: reqSize is added to the request counter
AddTotalBytes_WrongCounter(h) ==
    /\ Running
    /\ Accepting
    /\ pc[h] = "idle"
    /\ IF h = 1 THEN TRUE ELSE pc[h - 1] # "idle"  \* numbered by arrival
    /\ \E r \in Requests :
        /\ req' = [req EXCEPT ![h] = r]
        /\ host' = [host EXCEPT ![h] = HostKey(r.rawHost)]
        /\ reqSize' = [reqSize EXCEPT ![h] = ReqSize(r)]
        /\ totalRequests' = AtomicAddUint64(totalRequests, ReqSize(r))
    /\ pc' = [pc EXCEPT ![h] = "L68"]
    /\ UNCHANGED <<totalBytes, methods, hostMap, heap, v, resp,
                   config, reporterVars, panicMsg>>
    /\ UNCHANGED <<mainVars, history>>
    /\ overlapped' = (overlapped \/ rpc # "idle")

\* lines 55-67: classify the request, atomic.AddUint64(&totalBytes, reqSize)
AddTotalBytes(h) ==
    /\ Running
    /\ Accepting
    /\ pc[h] = "idle"
    /\ IF h = 1 THEN TRUE ELSE pc[h - 1] # "idle"  \* numbered by arrival
    /\ \E r \in Requests :
        /\ req' = [req EXCEPT ![h] = r]
        /\ host' = [host EXCEPT ![h] = HostKey(r.rawHost)]
        /\ reqSize' = [reqSize EXCEPT ![h] = ReqSize(r)]
        /\ totalBytes' = AtomicAddUint64(totalBytes, ReqSize(r))
    /\ pc' = [pc EXCEPT ![h] = "L68"]
    /\ UNCHANGED <<totalRequests, methods, hostMap, heap, v, resp,
                   config, reporterVars, panicMsg>>
    /\ UNCHANGED <<mainVars, history>>
    /\ overlapped' = (overlapped \/ rpc # "idle")

\* mutant: totalRequests++ without atomic: of two handlers at the increment
\* together, both read the same value and one update is lost
AddTotalRequests_Racy(h) ==
    /\ Running
    /\ pc[h] = "L68"
    /\ totalRequests' = IF \E g \in Handlers \ {h} : pc[g] = "L68"
                        THEN totalRequests
                        ELSE totalRequests + 1
    /\ pc' = [pc EXCEPT ![h] = "L70"]
    /\ UNCHANGED <<totalBytes, methods, hostMap, heap, req, host, reqSize, v,
                   resp, config, reporterVars, panicMsg>>
    /\ UNCHANGED <<mainVars, history>>
    /\ overlapped' = (overlapped \/ rpc # "idle")

\* line 68: atomic.AddUint64(&totalRequests, 1)
AddTotalRequests(h) ==
    /\ Running
    /\ pc[h] = "L68"
    /\ totalRequests' = AtomicAddUint64(totalRequests, 1)
    /\ pc' = [pc EXCEPT ![h] = "L70"]
    /\ UNCHANGED <<totalBytes, methods, hostMap, heap, req, host, reqSize, v,
                   resp, config, reporterVars, panicMsg>>
    /\ UNCHANGED <<mainVars, history>>
    /\ overlapped' = (overlapped \/ rpc # "idle")

\* line 70: v, ok := hostMap.Load(host)
LoadHost(h) ==
    /\ Running
    /\ pc[h] = "L70"
    /\ v' = [v EXCEPT ![h] = MapLoad(hostMap, host[h])]
    /\ pc' = [pc EXCEPT ![h] =
                IF MapLoad(hostMap, host[h]) = NoPtr THEN "L72" ELSE "L80"]
    /\ UNCHANGED <<registry, req, host, reqSize, resp, config, reporterVars,
                   panicMsg>>
    /\ UNCHANGED <<mainVars, history>>
    /\ overlapped' = (overlapped \/ rpc # "idle")

\* mutant: hostMap.Store(host, newHS) in place of LoadOrStore
LoadOrStoreHost_Store(h) ==
    /\ Running
    /\ pc[h] = "L72"
    /\ heap' = [p \in DOMAIN heap \cup {h} |->
                  IF p = h THEN ZeroStats ELSE heap[p]]
    /\ hostMap' = [k \in DOMAIN hostMap \cup {host[h]} |->
                     IF k = host[h] THEN h ELSE hostMap[k]]
    /\ v' = [v EXCEPT ![h] = h]
    /\ pc' = [pc EXCEPT ![h] = "L80"]
    /\ UNCHANGED <<totalRequests, totalBytes, methods, req, host, reqSize,
                   resp, config, reporterVars, panicMsg>>
    /\ UNCHANGED <<mainVars, history>>
    /\ overlapped' = (overlapped \/ rpc # "idle")

\* mutant: the insert waits while the reporter is inside hostMap.Range
LoadOrStoreHost_Blocked(h) ==
    /\ Running
    /\ pc[h] = "L72"
    /\ rpc \notin {"range", "L141"}
    /\ heap' = [p \in DOMAIN heap \cup {h} |->
                  IF p = h THEN ZeroStats ELSE heap[p]]
    /\ hostMap' = [k \in DOMAIN hostMap \cup {host[h]} |->
                     IF k \in DOMAIN hostMap THEN hostMap[k] ELSE h]
    /\ v' = [v EXCEPT ![h] = hostMap'[host[h]]]
    /\ pc' = [pc EXCEPT ![h] = "L80"]
    /\ UNCHANGED <<totalRequests, totalBytes, methods, req, host, reqSize,
                   resp, config, reporterVars, panicMsg>>
    /\ UNCHANGED <<mainVars, history>>
    /\ overlapped' = (overlapped \/ rpc # "idle")

\* lines 71-78: newHS := &hostStats{}; hostMap.LoadOrStore(host, newHS);
\* v is the stored pointer when one was loaded, newHS otherwise.
\* The pointer of the object handler h allocates is h.
LoadOrStoreHost(h) ==
    /\ Running
    /\ pc[h] = "L72"
    /\ heap' = [p \in DOMAIN heap \cup {h} |->
                  IF p = h THEN ZeroStats ELSE heap[p]]
    /\ hostMap' = MapLoadOrStore(hostMap, host[h], h)
    /\ v' = [v EXCEPT ![h] = hostMap'[host[h]]]
    /\ pc' = [pc EXCEPT ![h] = "L80"]
    /\ UNCHANGED <<totalRequests, totalBytes, methods, req, host, reqSize,
                   resp, config, reporterVars, panicMsg>>
    /\ UNCHANGED <<mainVars, history>>
    /\ overlapped' = (overlapped \/ rpc # "idle")

\* mutant: the deltas of lines 80 and 81 are swapped: requests grows by reqSize
AddHostRequests_BySize(h) ==
    /\ Running
    /\ pc[h] = "L80"
    /\ heap' = [heap EXCEPT ![v[h]].requests = AtomicAddUint64(@, reqSize[h])]
    /\ pc' = [pc EXCEPT ![h] = "L81"]
    /\ UNCHANGED <<totalRequests, totalBytes, methods, hostMap, req, host,
                   reqSize, v, resp, config, reporterVars, panicMsg>>
    /\ UNCHANGED <<mainVars, history>>
    /\ overlapped' = (overlapped \/ rpc # "idle")

\* lines 79-80: hs := v.(*hostStats); atomic.AddUint64(&hs.requests, 1)
AddHostRequests(h) ==
    /\ Running
    /\ pc[h] = "L80"
    /\ heap' = [heap EXCEPT ![v[h]].requests = AtomicAddUint64(@, 1)]
    /\ pc' = [pc EXCEPT ![h] = "L81"]
    /\ UNCHANGED <<totalRequests, totalBytes, methods, hostMap, req, host,
                   reqSize, v, resp, config, reporterVars, panicMsg>>
    /\ UNCHANGED <<mainVars, history>>
    /\ overlapped' = (overlapped \/ rpc # "idle")

\* mutant: the host's bytes grow by the body length only
AddHostBytes_BodyOnly(h) ==
    /\ Running
    /\ pc[h] = "L81"
    /\ heap' = [heap EXCEPT ![v[h]].bytes = AtomicAddUint64(@, req[h].bodyLen)]
    /\ pc' = [pc EXCEPT ![h] = "L83"]
    /\ UNCHANGED <<totalRequests, totalBytes, methods, hostMap, req, host,
                   reqSize, v, resp, config, reporterVars, panicMsg>>
    /\ UNCHANGED <<mainVars, history>>
    /\ overlapped' = (overlapped \/ rpc # "idle")

\* line 81: atomic.AddUint64(&hs.bytes, reqSize)
AddHostBytes(h) ==
    /\ Running
    /\ pc[h] = "L81"
    /\ heap' = [heap EXCEPT ![v[h]].bytes = AtomicAddUint64(@, reqSize[h])]
    /\ pc' = [pc EXCEPT ![h] = "L83"]
    /\ UNCHANGED <<totalRequests, totalBytes, methods, hostMap, req, host,
                   reqSize, v, resp, config, reporterVars, panicMsg>>
    /\ UNCHANGED <<mainVars, history>>
    /\ overlapped' = (overlapped \/ rpc # "idle")

\* mutant: a method other than GET and POST is answered 405
CountMethodAndRespond_RejectOther(h) ==
    /\ Running
    /\ pc[h] = "L83"
    /\ methods' = [methods EXCEPT
                     ![MethodCategory(req[h].method)] = AtomicAddUint64(@, 1)]
    /\ resp' = [resp EXCEPT ![h] =
                  IF MethodCategory(req[h].method) = "other"
                  THEN [status |-> 405, contentType |-> "", body |-> ""]
                  ELSE [status |-> 200,
                        contentType |-> "text/plain; charset=utf-8",
                        body |-> "OK"]]
    /\ pc' = [pc EXCEPT ![h] = "done"]
    /\ UNCHANGED <<totalRequests, totalBytes, hostMap, heap, req, host,
                   reqSize, v, config, reporterVars, panicMsg>>
    /\ UNCHANGED <<mainVars, history>>
    /\ overlapped' = (overlapped \/ rpc # "idle")

\* lines 83-94: the method switch, then the fixed response
CountMethodAndRespond(h) ==
    /\ Running
    /\ pc[h] = "L83"
    /\ methods' = [methods EXCEPT
                     ![MethodCategory(req[h].method)] = AtomicAddUint64(@, 1)]
    /\ resp' = [resp EXCEPT ![h] =
                  [status |-> 200,
                   contentType |-> "text/plain; charset=utf-8",
                   body |-> "OK"]]
    /\ pc' = [pc EXCEPT ![h] = "done"]
    /\ UNCHANGED <<totalRequests, totalBytes, hostMap, heap, req, host,
                   reqSize, v, config, reporterVars, panicMsg>>
    /\ UNCHANGED <<mainVars, history>>
    /\ overlapped' = (overlapped \/ rpc # "idle")

Handler(h) ==
    \/ AddTotalBytes(h)
    \/ AddTotalRequests(h)
    \/ LoadHost(h)
    \/ LoadOrStoreHost(h)
    \/ AddHostRequests(h)
    \/ AddHostBytes(h)
    \/ CountMethodAndRespond(h)

\* ------------------------------------------------- the reporter goroutine

\* uint64(interval.Seconds()): whole seconds, truncated
IntervalSeconds(d) == d \div MsPerSecond

\* prevSnapshots[h]: the zero value when h has no entry
PrevSnapshot(k) ==
    IF k \in DOMAIN prevSnapshots THEN prevSnapshots[k] ELSE ZeroStats

\* mutant: the delta is reported without dividing by the seconds
RateOf_PerTick(x, d) == x

\* x / uint64(interval.Seconds()) on uint64
RateOf(x, d) == x \div IntervalSeconds(d)

\* the orders sort.Slice may leave s in under less(i, j) = s[i].req > s[j].req:
\* every permutation of s that is descending by req (the sort is not stable)
SortedByReq(s) ==
    LET n == Len(s)
        perms == { f \in [1..n -> 1..n] : \A i, j \in 1..n : i # j => f[i] # f[j] }
    IN  { [i \in 1..n |-> s[f[i]]] : f \in
            { g \in perms : \A i \in 1..n : \A j \in 1..n :
                                i < j => s[g[i]].req >= s[g[j]].req } }

\* items[:n]
Prefix(s, n) == [i \in 1..n |-> s[i]]

\* lines 115-116: a tick arrives (time.Tick delivers none when interval <= 0);
\* currTotalReq := atomic.LoadUint64(&totalRequests)
TickLoadTotalReq ==
    /\ Running
    /\ rpc = "idle"
    /\ interval > 0
    /\ ticks < MaxTicks
    /\ ticks' = ticks + 1
    /\ loc' = [loc EXCEPT !.currTotalReq = totalRequests]
    /\ rpc' = "L117"
    /\ UNCHANGED <<registry, handlerVars, config, prevSnapshots, prevTotalReq,
                   prevTotalBytes, items, visited, present, printed, panicMsg>>
    /\ UNCHANGED <<mainVars, history>>
    /\ overlapped' = (overlapped \/ InFlight # {})

\* mutant: the operands of the two subtractions are swapped
LoadTotalBytes_Swapped ==
    /\ Running
    /\ rpc = "L117"
    /\ LET dr == prevTotalReq - loc.currTotalReq
           db == prevTotalBytes - totalBytes
       IN  loc' = [loc EXCEPT !.currTotalBytes = totalBytes,
                              !.dr = dr,
                              !.db = db,
                              !.avg = IF dr > 0 THEN <<db, dr>> ELSE <<0, 1>>]
    /\ rpc' = "L125"
    /\ UNCHANGED <<registry, handlerVars, config, ticks, prevSnapshots,
                   prevTotalReq, prevTotalBytes, items, visited, present,
                   printed, panicMsg>>
    /\ sumDr' = sumDr + loc'.dr
    /\ sumDb' = sumDb + loc'.db
    /\ UNCHANGED <<mainVars, hostDeltaSum, tickDelta>>
    /\ UNCHANGED overlapped

\* lines 117-123: currTotalBytes := atomic.LoadUint64(&totalBytes); dr, db, avg
LoadTotalBytes ==
    /\ Running
    /\ rpc = "L117"
    /\ LET dr == loc.currTotalReq - prevTotalReq
           db == totalBytes - prevTotalBytes
       IN  loc' = [loc EXCEPT !.currTotalBytes = totalBytes,
                              !.dr = dr,
                              !.db = db,
                              !.avg = IF dr > 0 THEN <<db, dr>> ELSE <<0, 1>>]
    /\ rpc' = "L125"
    /\ UNCHANGED <<registry, handlerVars, config, ticks, prevSnapshots,
                   prevTotalReq, prevTotalBytes, items, visited, present,
                   printed, panicMsg>>
    /\ sumDr' = sumDr + loc'.dr
    /\ sumDb' = sumDb + loc'.db
    /\ UNCHANGED <<mainVars, hostDeltaSum, tickDelta>>
    /\ UNCHANGED overlapped

\* line 125: mg := atomic.LoadUint64(&methods.get)
LoadMethodGet ==
    /\ Running
    /\ rpc = "L125"
    /\ loc' = [loc EXCEPT !.mg = methods.get]
    /\ rpc' = "L126"
    /\ UNCHANGED <<registry, handlerVars, config, ticks, prevSnapshots,
                   prevTotalReq, prevTotalBytes, items, visited, present,
                   printed, panicMsg>>
    /\ UNCHANGED <<mainVars, history>>
    /\ UNCHANGED overlapped

\* line 126: mp := atomic.LoadUint64(&methods.post)
LoadMethodPost ==
    /\ Running
    /\ rpc = "L126"
    /\ loc' = [loc EXCEPT !.mp = methods.post]
    /\ rpc' = "L127"
    /\ UNCHANGED <<registry, handlerVars, config, ticks, prevSnapshots,
                   prevTotalReq, prevTotalBytes, items, visited, present,
                   printed, panicMsg>>
    /\ UNCHANGED <<mainVars, history>>
    /\ UNCHANGED overlapped

\* lines 127-137: mo := atomic.LoadUint64(&methods.other); var items []item;
\* hostMap.Range is called: the keys stored now will all be visited
LoadMethodOther ==
    /\ Running
    /\ rpc = "L127"
    /\ loc' = [loc EXCEPT !.mo = methods.other]
    /\ items' = <<>>
    /\ visited' = {}
    /\ present' = DOMAIN hostMap
    /\ rpc' = "range"
    /\ UNCHANGED <<registry, handlerVars, config, ticks, prevSnapshots,
                   prevTotalReq, prevTotalBytes, printed, panicMsg>>
    /\ tickDelta' = <<>>
    /\ UNCHANGED <<mainVars, sumDr, sumDb, hostDeltaSum, overlapped>>

\* lines 137-140: Range passes the callback a key it has not passed yet, with
\* the pointer stored under it (a key stored during the Range may or may not
\* be passed); currReq := atomic.LoadUint64(&hs.requests)
RangeLoadRequests ==
    /\ Running
    /\ rpc = "range"
    /\ \E k \in DOMAIN hostMap \ visited :
        loc' = [loc EXCEPT !.h = k, !.hs = hostMap[k],
                           !.currReq = heap[hostMap[k]].requests]
    /\ rpc' = "L141"
    /\ UNCHANGED <<registry, handlerVars, config, ticks, prevSnapshots,
                   prevTotalReq, prevTotalBytes, items, visited, present,
                   printed, panicMsg>>
    /\ UNCHANGED <<mainVars, history>>
    /\ UNCHANGED overlapped

\* mutant: prevSnapshots[h] is stored only inside if dreq > 0
RangeLoadBytes_SkipZero ==
    /\ Running
    /\ rpc = "L141"
    /\ LET currBytes == heap[loc.hs].bytes
           prev == PrevSnapshot(loc.h)
           dreq == loc.currReq - prev.requests
           dbytes == currBytes - prev.bytes
       IN  /\ items' = IF dreq > 0
                       THEN Append(items, [host |-> loc.h, req |-> dreq,
                                           bytes |-> dbytes,
                                           avg |-> <<dbytes, dreq>>])
                       ELSE items
           /\ prevSnapshots' =
                [k \in DOMAIN prevSnapshots \cup
                          (IF dreq > 0 THEN {loc.h} ELSE {}) |->
                    IF k = loc.h /\ dreq > 0
                    THEN [requests |-> loc.currReq, bytes |-> currBytes]
                    ELSE prevSnapshots[k]]
           /\ hostDeltaSum' =
                [k \in DOMAIN hostDeltaSum \cup {loc.h} |->
                    IF k = loc.h
                    THEN IF k \in DOMAIN hostDeltaSum
                         THEN [requests |-> hostDeltaSum[k].requests + dreq,
                               bytes |-> hostDeltaSum[k].bytes + dbytes]
                         ELSE [requests |-> dreq, bytes |-> dbytes]
                    ELSE hostDeltaSum[k]]
           /\ tickDelta' =
                IF dreq > 0
                THEN [k \in DOMAIN tickDelta \cup {loc.h} |->
                        IF k = loc.h THEN dreq ELSE tickDelta[k]]
                ELSE tickDelta
    /\ visited' = visited \cup {loc.h}
    /\ loc' = [loc EXCEPT !.h = <<>>, !.hs = NoPtr, !.currReq = 0]
    /\ rpc' = "range"
    /\ UNCHANGED <<registry, handlerVars, config, ticks, prevTotalReq,
                   prevTotalBytes, present, printed, panicMsg>>
    /\ UNCHANGED <<mainVars, sumDr, sumDb, overlapped>>

\* lines 141-154: currBytes := atomic.LoadUint64(&hs.bytes); the deltas against
\* prevSnapshots[h]; an item when dreq > 0; prevSnapshots[h] = the values read
RangeLoadBytes ==
    /\ Running
    /\ rpc = "L141"
    /\ LET currBytes == heap[loc.hs].bytes
           prev == PrevSnapshot(loc.h)
           dreq == loc.currReq - prev.requests
           dbytes == currBytes - prev.bytes
       IN  /\ items' = IF dreq > 0
                       THEN Append(items, [host |-> loc.h, req |-> dreq,
                                           bytes |-> dbytes,
                                           avg |-> <<dbytes, dreq>>])
                       ELSE items
           /\ prevSnapshots' =
                [k \in DOMAIN prevSnapshots \cup {loc.h} |->
                    IF k = loc.h
                    THEN [requests |-> loc.currReq, bytes |-> currBytes]
                    ELSE prevSnapshots[k]]
           /\ hostDeltaSum' =
                [k \in DOMAIN hostDeltaSum \cup {loc.h} |->
                    IF k = loc.h
                    THEN IF k \in DOMAIN hostDeltaSum
                         THEN [requests |-> hostDeltaSum[k].requests + dreq,
                               bytes |-> hostDeltaSum[k].bytes + dbytes]
                         ELSE [requests |-> dreq, bytes |-> dbytes]
                    ELSE hostDeltaSum[k]]
           /\ tickDelta' =
                IF dreq > 0
                THEN [k \in DOMAIN tickDelta \cup {loc.h} |->
                        IF k = loc.h THEN dreq ELSE tickDelta[k]]
                ELSE tickDelta
    /\ visited' = visited \cup {loc.h}
    /\ loc' = [loc EXCEPT !.h = <<>>, !.hs = NoPtr, !.currReq = 0]
    /\ rpc' = "range"
    /\ UNCHANGED <<registry, handlerVars, config, ticks, prevTotalReq,
                   prevTotalBytes, present, printed, panicMsg>>
    /\ UNCHANGED <<mainVars, sumDr, sumDb, overlapped>>

\* lines 155-160: Range returns; sort.Slice(items, ...);
\* if len(items) > top { items = items[:top] }: a negative top is a slice
\* bound out of range
SortAndTruncate ==
    /\ Running
    /\ rpc = "range"
    /\ present \subseteq visited
    /\ IF Len(items) > top
       THEN IF top < 0
            THEN /\ panicMsg' = "slice bounds out of range"
                 /\ UNCHANGED <<items, rpc>>
            ELSE /\ \E s \in SortedByReq(items) : items' = Prefix(s, top)
                 /\ rpc' = "L163"
                 /\ UNCHANGED panicMsg
       ELSE /\ \E s \in SortedByReq(items) : items' = s
            /\ rpc' = "L163"
            /\ UNCHANGED panicMsg
    /\ UNCHANGED <<registry, handlerVars, config, ticks, prevSnapshots,
                   prevTotalReq, prevTotalBytes, loc, visited, present, printed>>
    /\ UNCHANGED <<mainVars, history>>
    /\ UNCHANGED overlapped

\* lines 162-171: the summary line (the uptime, a wall-clock reading, is left
\* out); dr/uint64(interval.Seconds()) is an integer division, which panics
\* when the divisor is 0
PrintSummary ==
    /\ Running
    /\ rpc = "L163"
    /\ IF IntervalSeconds(interval) = 0
       THEN /\ panicMsg' = "integer divide by zero"
            /\ UNCHANGED <<printed, rpc>>
       ELSE /\ printed' = [printed EXCEPT !.summary =
                  << [reqPerSec |-> RateOf(loc.dr, interval),
                      bytesPerSec |-> RateOf(loc.db, interval),
                      avg |-> loc.avg,
                      totalReq |-> loc.currTotalReq,
                      totalBytes |-> loc.currTotalBytes,
                      get |-> loc.mg, post |-> loc.mp, other |-> loc.mo] >>]
            /\ rpc' = "L173"
            /\ UNCHANGED panicMsg
    /\ UNCHANGED <<registry, handlerVars, config, ticks, prevSnapshots,
                   prevTotalReq, prevTotalBytes, loc, items, visited, present>>
    /\ UNCHANGED <<mainVars, history>>
    /\ UNCHANGED overlapped

\* lines 173-183: one line per item; it.req/uint64(interval.Seconds())
PrintHosts ==
    /\ Running
    /\ rpc = "L173"
    /\ IF Len(items) > 0 /\ IntervalSeconds(interval) = 0
       THEN /\ panicMsg' = "integer divide by zero"
            /\ UNCHANGED <<printed, rpc>>
       ELSE /\ printed' = [printed EXCEPT !.hosts =
                  [i \in 1..Len(items) |->
                     [host |-> items[i].host,
                      reqPerSec |-> RateOf(items[i].req, interval),
                      avg |-> items[i].avg,
                      req |-> items[i].req,
                      bytes |-> items[i].bytes]]]
            /\ rpc' = "L185"
            /\ UNCHANGED panicMsg
    /\ UNCHANGED <<registry, handlerVars, config, ticks, prevSnapshots,
                   prevTotalReq, prevTotalBytes, loc, items, visited, present>>
    /\ UNCHANGED <<mainVars, history>>
    /\ UNCHANGED overlapped

\* mutant: the previous totals are loaded afresh from the counters at line 185
StorePrevTotals_Fresh ==
    /\ Running
    /\ rpc = "L185"
    /\ prevTotalReq' = totalRequests
    /\ prevTotalBytes' = totalBytes
    /\ loc' = NoLocals
    /\ items' = <<>>
    /\ visited' = {}
    /\ present' = {}
    /\ printed' = NoOutput
    /\ rpc' = "idle"
    /\ UNCHANGED <<registry, handlerVars, config, ticks, prevSnapshots,
                   panicMsg>>
    /\ tickDelta' = <<>>
    /\ UNCHANGED <<mainVars, sumDr, sumDb, hostDeltaSum, overlapped>>

\* mutant: the reporter zeroes the global counters once it has reported them
StorePrevTotals_ResetCounters ==
    /\ Running
    /\ rpc = "L185"
    /\ prevTotalReq' = loc.currTotalReq
    /\ prevTotalBytes' = loc.currTotalBytes
    /\ loc' = NoLocals
    /\ items' = <<>>
    /\ visited' = {}
    /\ present' = {}
    /\ printed' = NoOutput
    /\ rpc' = "idle"
    /\ totalRequests' = 0
    /\ totalBytes' = 0
    /\ UNCHANGED <<methods, hostMap, heap, handlerVars, config, ticks,
                   prevSnapshots, panicMsg>>
    /\ tickDelta' = <<>>
    /\ UNCHANGED <<mainVars, sumDr, sumDb, hostDeltaSum, overlapped>>

\* line 185: prevTotalReq, prevTotalBytes = currTotalReq, currTotalBytes;
\* the iteration ends and the reporter waits for the next tick
StorePrevTotals ==
    /\ Running
    /\ rpc = "L185"
    /\ prevTotalReq' = loc.currTotalReq
    /\ prevTotalBytes' = loc.currTotalBytes
    /\ loc' = NoLocals
    /\ items' = <<>>
    /\ visited' = {}
    /\ present' = {}
    /\ printed' = NoOutput
    /\ rpc' = "idle"
    /\ UNCHANGED <<registry, handlerVars, config, ticks, prevSnapshots,
                   panicMsg>>
    /\ tickDelta' = <<>>
    /\ UNCHANGED <<mainVars, sumDr, sumDb, hostDeltaSum, overlapped>>

Reporter ==
    \/ TickLoadTotalReq
    \/ LoadTotalBytes
    \/ LoadMethodGet
    \/ LoadMethodPost
    \/ LoadMethodOther
    \/ RangeLoadRequests
    \/ RangeLoadBytes
    \/ SortAndTruncate
    \/ PrintSummary
    \/ PrintHosts
    \/ StorePrevTotals

Next == (\E h \in Handlers : Handler(h)) \/ Reporter

Spec == Init /\ [][Next]_vars

\* ------------------------------------------------ main, from <-stop on

\* lines 203-204: <-stop receives SIGINT or SIGTERM; "shutting down..."
ReceiveSignal ==
    /\ Running
    /\ mpc = "L203"
    /\ mpc' = "L205"
    /\ UNCHANGED <<registry, handlerVars, config, reporterVars, panicMsg,
                   shutdownErr, finalReq, finals, history, overlapped>>

\* lines 205-207: server.Shutdown() returns an error, which is logged; what
\* it has closed by then is not known, so requests may still arrive
ShutdownFails ==
    /\ Running
    /\ mpc = "L205"
    /\ shutdownErr' = TRUE
    /\ mpc' = "L209"
    /\ UNCHANGED <<registry, handlerVars, config, reporterVars, panicMsg,
                   finalReq, finals, history, overlapped>>

\* line 205: server.Shutdown() closes the listener and waits for the open
\* connections
ShutdownClosesListener ==
    /\ Running
    /\ mpc = "L205"
    /\ mpc' = "draining"
    /\ UNCHANGED <<registry, handlerVars, config, reporterVars, panicMsg,
                   shutdownErr, finalReq, finals, history, overlapped>>

\* line 205: server.Shutdown() returns nil once no handler is in flight
ShutdownReturns ==
    /\ Running
    /\ mpc = "draining"
    /\ InFlight = {}
    /\ mpc' = "L209"
    /\ UNCHANGED <<registry, handlerVars, config, reporterVars, panicMsg,
                   shutdownErr, finalReq, finals, history, overlapped>>

\* line 209: currReq := atomic.LoadUint64(&totalRequests)
LoadFinalReq ==
    /\ Running
    /\ mpc = "L209"
    /\ finalReq' = totalRequests
    /\ mpc' = "L210"
    /\ UNCHANGED <<registry, handlerVars, config, reporterVars, panicMsg,
                   shutdownErr, finals, history, overlapped>>

\* lines 210-221: currBytes := atomic.LoadUint64(&totalBytes); avg; the
\* "final totals" line (without the uptime); main returns, the process exits
PrintFinalTotals ==
    /\ Running
    /\ mpc = "L210"
    /\ finals' = Append(finals,
                    [requests |-> finalReq,
                     bytes |-> totalBytes,
                     avg |-> IF finalReq > 0 THEN <<totalBytes, finalReq>>
                                             ELSE <<0, 1>>])
    /\ mpc' = "exited"
    /\ UNCHANGED <<registry, handlerVars, config, reporterVars, panicMsg,
                   shutdownErr, finalReq, history, overlapped>>

MainTask ==
    \/ ReceiveSignal
    \/ ShutdownFails
    \/ ShutdownClosesListener
    \/ ShutdownReturns
    \/ LoadFinalReq
    \/ PrintFinalTotals

\* the state in which handler 1 has served one request and returned, before
\* the first tick and before any signal
InitShutdown ==
    \E r \in Requests :
        /\ totalRequests = 1
        /\ totalBytes = ReqSize(r)
        /\ methods = [c \in {"get", "post", "other"} |->
                        IF c = MethodCategory(r.method) THEN 1 ELSE 0]
        /\ hostMap = [k \in {HostKey(r.rawHost)} |-> 1]
        /\ heap = [p \in {1} |-> [requests |-> 1, bytes |-> ReqSize(r)]]
        /\ pc = [h \in Handlers |-> IF h = 1 THEN "done" ELSE "idle"]
        /\ req = [h \in Handlers |-> IF h = 1 THEN r ELSE NoRequest]
        /\ host = [h \in Handlers |->
                     IF h = 1 THEN HostKey(r.rawHost) ELSE <<>>]
        /\ reqSize = [h \in Handlers |-> IF h = 1 THEN ReqSize(r) ELSE 0]
        /\ v = [h \in Handlers |-> IF h = 1 THEN 1 ELSE NoPtr]
        /\ resp = [h \in Handlers |->
                     IF h = 1
                     THEN [status |-> 200,
                           contentType |-> "text/plain; charset=utf-8",
                           body |-> "OK"]
                     ELSE [status |-> 0, contentType |-> "", body |-> ""]]
        /\ interval \in Intervals
        /\ top \in Tops
        /\ rpc = "idle"
        /\ ticks = 0
        /\ prevSnapshots = <<>>
        /\ prevTotalReq = 0
        /\ prevTotalBytes = 0
        /\ loc = NoLocals
        /\ items = <<>>
        /\ visited = {}
        /\ present = {}
        /\ printed = NoOutput
        /\ panicMsg = ""
        /\ mpc = "L203"
        /\ shutdownErr = FALSE
        /\ finalReq = 0
        /\ finals = <<>>
        /\ sumDr = 0
        /\ sumDb = 0
        /\ hostDeltaSum = <<>>
        /\ tickDelta = <<>>
        /\ overlapped = FALSE

NextShutdown == Next \/ MainTask

SpecShutdown == InitShutdown /\ [][NextShutdown]_vars

\* ================================================================ claims

\* the handlers at one of the positions ps
At(ps) == { h \in Handlers : pc[h] \in ps }

\* the handlers that have returned
Finished == At({"done"})

\* no handler is part-way through
Quiescent == \A h \in Handlers : pc[h] \in {"idle", "done"}

RECURSIVE SumOf(_, _)
\* the sum of f[h] over the handlers h in S
SumOf(f, S) ==
    IF S = {} THEN 0
    ELSE LET h == CHOOSE x \in S : TRUE
         IN  f[h] + SumOf(f, S \ {h})

\* the host keys of the handlers in S
KeysOf(S) == { host[h] : h \in S }

\* the handlers in S whose request is counted under key k
ForKey(S, k) == { h \in S : host[h] = k }

\* what a request's size estimate should be, computed from the request
ExpectedSize == [h \in Handlers |->
    req[h].headersLen + req[h].bodyLen + Len(req[h].method) + req[h].uriLen + 11]

\* each letter as <<upper case, lower case>>
CasePairs == { <<UpperCase[i], LowerCase[i]>> : i \in 1..Len(UpperCase) }

\* a and b are the same string up to the case of their letters
SameIgnoringCase(a, b) ==
    /\ Len(a) = Len(b)
    /\ \A i \in 1..Len(a) :
          \/ a[i] = b[i]
          \/ <<a[i], b[i]>> \in CasePairs
          \/ <<b[i], a[i]>> \in CasePairs

\* the fixed response
OkResponse == [status |-> 200, contentType |-> "text/plain; charset=utf-8",
               body |-> "OK"]

\* C1: once all handlers run (in any interleaving) have finished, totalRequests
\* is the number of handlers run and totalBytes is the sum of their reqSize.
C1_FinalTotals ==
    Quiescent =>
        /\ totalRequests = Cardinality(Finished)
        /\ totalBytes = SumOf(reqSize, Finished)

\* C1 witness: two handlers have run to the end and both are counted
C1_Witness ==
    /\ Quiescent
    /\ Cardinality(Finished) >= 2
    /\ totalRequests = Cardinality(Finished)

\* C2: once all handlers have finished, each host's stored entry holds the
\* number of handlers run for that host and the sum of their reqSize, whatever
\* ran concurrently for another host.
C2_PerHostTotals ==
    Quiescent =>
        \A k \in KeysOf(Finished) :
            /\ k \in DOMAIN hostMap
            /\ heap[hostMap[k]].requests = Cardinality(ForKey(Finished, k))
            /\ heap[hostMap[k]].bytes = SumOf(reqSize, ForKey(Finished, k))

\* C2 witness: handlers for two distinct hosts, each of which created its
\* host's entry, have finished
C2_Witness ==
    /\ Quiescent
    /\ \E h1, h2 \in Finished :
          /\ host[h1] # host[h2]
          /\ hostMap[host[h1]] = h1
          /\ hostMap[host[h2]] = h2
          /\ heap[h1].requests = 1
          /\ heap[h2].requests = 1

\* C3: handlers racing through Load / LoadOrStore for one unseen key all end
\* with the one stored instance: every handler past LoadOrStore holds the
\* pointer stored under its key, an instance that is not stored is never
\* incremented, and once the N handlers have finished the stored entry has
\* requests = N.
C3_OneStoredInstance ==
    /\ \A h \in At({"L80", "L81", "L83", "done"}) :
          /\ host[h] \in DOMAIN hostMap
          /\ v[h] = hostMap[host[h]]
    /\ \A p \in DOMAIN heap :
          (\A k \in DOMAIN hostMap : hostMap[k] # p) => heap[p] = ZeroStats
    /\ \A k1, k2 \in DOMAIN hostMap : hostMap[k1] = hostMap[k2] => k1 = k2
    /\ Quiescent =>
          \A k \in DOMAIN hostMap :
              heap[hostMap[k]].requests = Cardinality(ForKey(Finished, k))

\* C3 witness: two handlers for one key both missed in Load and both allocated
\* an instance; one was stored, the other discarded, and the stored one counts
\* both requests
C3_Witness ==
    /\ Quiescent
    /\ \E h1, h2 \in Finished :
          /\ h1 # h2
          /\ host[h1] = host[h2]
          /\ {h1, h2} \subseteq DOMAIN heap
          /\ v[h1] = v[h2]
          /\ heap[v[h1]].requests = 2

\* C4: every handler that returns has set status 200, the text/plain content
\* type and body OK, and no other response is ever set; when it returns it
\* has added exactly 1 to totalRequests and exactly 1 to the requests counter
\* of the entry of its host key and of no other entry.
C4_AlwaysOkAndCountedOnce ==
    /\ \A h \in Handlers :
          /\ pc[h] = "done" => resp[h] = OkResponse
          /\ pc[h] # "done" => resp[h].status = 0
    /\ totalRequests = Cardinality(At({"L70", "L72", "L80", "L81", "L83", "done"}))
    /\ \A p \in DOMAIN heap :
          heap[p].requests =
              Cardinality({ h \in At({"L81", "L83", "done"}) :
                              /\ host[h] \in DOMAIN hostMap
                              /\ hostMap[host[h]] = p })

\* C4 witness: a request with a method that is neither GET nor POST has been
\* answered and counted
C4_Witness ==
    \E h \in Finished :
        /\ req[h].method \notin {MethodGet, MethodPost}
        /\ resp[h].status = 200
        /\ heap[hostMap[host[h]]].requests >= 1

\* C5: a request is counted under its lower-cased host, or under "(no-host)"
\* when the host is empty: every counted request has a bucket, hosts that
\* differ only in case share one, and no key of hostMap is empty or has an
\* upper-case letter.
C5_HostKeyNormalised ==
    /\ \A k \in DOMAIN hostMap :
          /\ k # <<>>
          /\ \A i \in 1..Len(k) : ~IsUpper(k[i])
    /\ \A h \in At({"L80", "L81", "L83", "done"}) :
          /\ host[h] \in DOMAIN hostMap
          /\ SameIgnoringCase(host[h], req[h].rawHost) \/ req[h].rawHost = <<>>
          /\ req[h].rawHost = <<>> => host[h] = NoHost
    /\ \A h1, h2 \in At({"L80", "L81", "L83", "done"}) :
          SameIgnoringCase(req[h1].rawHost, req[h2].rawHost) => v[h1] = v[h2]

\* C5 witness: two requests whose hosts differ in case only are counted in one
\* bucket
C5_Witness ==
    \E h1, h2 \in Finished :
        /\ req[h1].rawHost # req[h2].rawHost
        /\ SameIgnoringCase(req[h1].rawHost, req[h2].rawHost)
        /\ v[h1] = v[h2]
        /\ heap[v[h1]].requests = 2

\* C6: the size estimate is headersLen + bodyLen + methodLen + uriLen + 11
\* (25 for ("", GET, 10, 0, 3, 1), 185 for ("Example.COM", POST, 100, 50, 4,
\* 20)), and that value is what the request adds to totalBytes and to its host
\* entry's bytes.
C6_SizeEstimate ==
    /\ \A h \in Handlers \ At({"idle"}) :
          /\ reqSize[h] = ExpectedSize[h]
          /\ (req[h].headersLen = 10 /\ req[h].method = MethodGet) => reqSize[h] = 25
          /\ (req[h].headersLen = 100 /\ req[h].method = MethodPost) => reqSize[h] = 185
    /\ totalBytes = SumOf(ExpectedSize, Handlers \ At({"idle"}))
    /\ \A k \in DOMAIN hostMap :
          heap[hostMap[k]].bytes = SumOf(ExpectedSize, ForKey(At({"L83", "done"}), k))

\* C6 witness: the two requests of the examples have been handled, 25 + 185
\* bytes in all
C6_Witness ==
    /\ Quiescent
    /\ \E h1, h2 \in Finished :
          /\ req[h1].rawHost = <<>> /\ reqSize[h1] = 25
          /\ req[h2].rawHost # <<>> /\ reqSize[h2] = 185
    /\ totalBytes = 210

\* C7: each request adds 1 to exactly one method counter: get for exactly
\* "GET", post for exactly "POST", other for anything else ("get" too); once
\* all handlers have finished get + post + other = totalRequests.
C7_MethodCounters ==
    /\ methods.get = Cardinality({ h \in Finished : req[h].method = <<"G","E","T">> })
    /\ methods.post = Cardinality({ h \in Finished : req[h].method = <<"P","O","S","T">> })
    /\ methods.other = Cardinality({ h \in Finished :
                                       /\ req[h].method # <<"G","E","T">>
                                       /\ req[h].method # <<"P","O","S","T">> })
    /\ Quiescent => methods.get + methods.post + methods.other = totalRequests

\* C7 witness: a request with method "get" has been counted as other
C7_Witness ==
    /\ \E h \in Finished : req[h].method = <<"g","e","t">>
    /\ methods.other >= 1
    /\ methods.get = 0

\* the reporter's state: Idle between ticks, Reporting inside one
ReporterState ==
    IF ~Running THEN "Panicked"
    ELSE IF rpc = "idle" THEN "Idle" ELSE "Reporting"

\* C8 (as claimed): for every interval, sub-second ones too, no tick ends in a
\* division by zero.
C8_NoDivisionByZero == panicMsg # "integer divide by zero"

\* C9 (as claimed): for every interval and every top the reporter is Idle or
\* Reporting and never ends the process.
C9_ReporterNeverEndsProcess == ReporterState \in {"Idle", "Reporting"}

\* the handlers with a step to take: those in flight and the next to arrive
Pending ==
    { h \in Handlers :
        /\ pc[h] # "done"
        /\ pc[h] = "idle" => (IF h = 1 THEN TRUE ELSE pc[h - 1] # "idle") }

\* C10: while the process runs, with the reporter Idle or at any point of a
\* tick, the next step of every handler is enabled, the insert of a new host
\* into hostMap too.
C10_HandlersNeverBlocked ==
    ReporterState \in {"Idle", "Reporting"} =>
        \A h \in Pending : ENABLED Handler(h)

\* C10 witness: a host was inserted into hostMap while the reporter was inside
\* hostMap.Range, and another handler is about to insert
C10_Witness ==
    /\ rpc \in {"range", "L141"}
    /\ DOMAIN hostMap \ present # {}
    /\ \E h \in Handlers : pc[h] = "L72"

Min(a, b) == IF a < b THEN a ELSE b

\* the hosts of the host lines printed in the tick under way
LineHosts == { printed.hosts[i].host : i \in 1..Len(printed.hosts) }

\* the tick under way has emitted all the lines it will: its host lines are
\* out, or the process has panicked inside it
TickOver == rpc = "L185" \/ (rpc # "idle" /\ panicMsg # "")

\* C11 (as claimed): in every tick the number of host lines emitted is
\* min(top, number of hosts whose request delta in the tick is positive), each
\* line carries its host's delta, and no host left out has a strictly larger
\* delta than a host with a line.
C11_TopHostLines ==
    TickOver =>
        /\ Len(printed.hosts) = Min(top, Cardinality(DOMAIN tickDelta))
        /\ \A i \in 1..Len(printed.hosts) :
              /\ printed.hosts[i].host \in DOMAIN tickDelta
              /\ printed.hosts[i].req = tickDelta[printed.hosts[i].host]
        /\ \A k \in DOMAIN tickDelta \ LineHosts :
              \A i \in 1..Len(printed.hosts) :
                  tickDelta[k] <= printed.hosts[i].req

\* the handlers whose request has arrived
Arrived == { h \in Handlers : pc[h] # "idle" }

\* C12 (as claimed): once the termination signal has been received the process
\* does not end without the final report; the report is printed once at most;
\* after a shutdown that returned no error its totals are the number and the
\* size of all the requests handled.
C12_FinalReportOnceBeforeExit ==
    /\ Len(finals) <= 1
    /\ (mpc # "L203" /\ ~Running) => Len(finals) = 1
    /\ (mpc = "exited" /\ ~shutdownErr) =>
          /\ Len(finals) = 1
          /\ finals[1].requests = Cardinality(Arrived)
          /\ finals[1].bytes = SumOf(reqSize, Arrived)

\* C13: whatever the interleaving, a counter never lies below the value the
\* reporter stored for it, so each value read in a tick is at least the stored
\* previous one and no delta (a plain difference here, negative where the
\* uint64 subtraction would wrap) underflows.
C13_NoDeltaUnderflow ==
    /\ prevTotalReq <= totalRequests
    /\ prevTotalBytes <= totalBytes
    /\ \A k \in DOMAIN prevSnapshots :
          /\ k \in DOMAIN hostMap
          /\ prevSnapshots[k].requests <= heap[hostMap[k]].requests
          /\ prevSnapshots[k].bytes <= heap[hostMap[k]].bytes
    /\ rpc # "idle" => loc.currTotalReq >= prevTotalReq
    /\ rpc \notin {"idle", "L117"} =>
          /\ loc.currTotalBytes >= prevTotalBytes
          /\ loc.dr >= 0
          /\ loc.db >= 0
    /\ rpc = "L141" => loc.currReq >= PrevSnapshot(loc.h).requests
    /\ \A i \in 1..Len(items) : items[i].req > 0 /\ items[i].bytes >= 0

\* C13 witness: in a second tick both totals have grown over non-zero stored
\* previous values, and a host's requests read lies above its snapshot
C13_Witness ==
    /\ ticks = 2
    /\ rpc = "L141"
    /\ prevTotalReq > 0
    /\ loc.dr > 0
    /\ loc.db > 0
    /\ PrevSnapshot(loc.h).requests > 0
    /\ loc.currReq > PrevSnapshot(loc.h).requests

\* C14: a host visited with a zero request delta gets no item and no line, yet
\* its snapshot is set to the values read; a host seen for the first time is
\* diffed against zero; so for every host the deltas computed over the ticks
\* so far add up to the values last read for it, which its snapshot holds.
C14_SnapshotTelescopes ==
    /\ visited \subseteq DOMAIN prevSnapshots
    /\ DOMAIN tickDelta \subseteq visited
    /\ \A i \in 1..Len(items) :
          items[i].req > 0 /\ items[i].host \in DOMAIN tickDelta
    /\ \A i \in 1..Len(printed.hosts) :
          printed.hosts[i].req > 0 /\ printed.hosts[i].host \in DOMAIN tickDelta
    /\ DOMAIN hostDeltaSum = DOMAIN prevSnapshots
    /\ \A k \in DOMAIN prevSnapshots :
          /\ hostDeltaSum[k].requests = prevSnapshots[k].requests
          /\ hostDeltaSum[k].bytes = prevSnapshots[k].bytes

\* C14 witness: in a second tick a host counted in the first is visited with
\* a zero request delta while another host gets an item
C14_Witness ==
    /\ ticks = 2
    /\ rpc = "range"
    /\ Len(items) = 1
    /\ \E k \in visited \ DOMAIN tickDelta :
          /\ prevSnapshots[k].requests > 0
          /\ hostDeltaSum[k].requests = prevSnapshots[k].requests

\* C15: once a tick has computed its deltas, the deltas of all ticks so far add
\* up to the totals that tick read; between ticks the stored previous totals
\* are the totals the last tick read, that is the same sums.
C15_TotalsTelescope ==
    /\ rpc \notin {"idle", "L117"} =>
          /\ sumDr = loc.currTotalReq
          /\ sumDb = loc.currTotalBytes
    /\ rpc = "idle" =>
          /\ prevTotalReq = sumDr
          /\ prevTotalBytes = sumDb

\* C15 witness: the second tick has ended; each of the two ticks counted one
\* request
C15_Witness ==
    /\ ticks = 2
    /\ rpc = "idle"
    /\ prevTotalReq = 2
    /\ sumDr = 2
    /\ \E k \in DOMAIN prevSnapshots : prevSnapshots[k].requests = 1

\* C16: the summary line of a tick carries (curr - prev totalRequests) divided
\* by the whole seconds of the interval, truncated, the byte rate likewise, and
\* as average deltaBytes / deltaRequests when deltaRequests > 0, else 0; with
\* previous totals (100, 5000), current totals (150, 8000) and 2 s that is
\* 25 req/s, 1500 B/s and 60 B.
C16_Rates ==
    /\ printed.summary # <<>> =>
          LET line == printed.summary[1]
              dr == line.totalReq - prevTotalReq
              db == line.totalBytes - prevTotalBytes
              secs == interval \div 1000
          IN  /\ secs > 0
              /\ line.reqPerSec * secs <= dr
              /\ dr < (line.reqPerSec + 1) * secs
              /\ line.bytesPerSec * secs <= db
              /\ db < (line.bytesPerSec + 1) * secs
              /\ dr > 0 => line.avg[1] * dr = db * line.avg[2]
              /\ dr = 0 => line.avg[1] = 0
    /\ RateOf(150 - 100, 2000) = 25
    /\ RateOf(8000 - 5000, 2000) = 1500
    /\ (8000 - 5000) = 60 * (150 - 100)

\* C16 witness: a summary line for two requests in 2 s: 1 req/s, and the byte
\* rate is half the byte delta, rounded down
C16_Witness ==
    /\ printed.summary # <<>>
    /\ printed.summary[1].totalReq - prevTotalReq = 2
    /\ printed.summary[1].reqPerSec = 1
    /\ printed.summary[1].totalBytes - prevTotalBytes = 25 + 15
    /\ printed.summary[1].bytesPerSec = 20

\* the sum of the requests counters of the entries of hostMap
HostRequestsSum ==
    SumOf([k \in DOMAIN hostMap |-> heap[hostMap[k]].requests], DOMAIN hostMap)

MethodsSum == methods.get + methods.post + methods.other

\* C17: in every state the requests counters of the hostMap entries add up to
\* at most totalRequests, and so do the three method counters; both sums equal
\* totalRequests when no handler is in flight.
C17_CountersBounded ==
    /\ HostRequestsSum <= totalRequests
    /\ MethodsSum <= totalRequests
    /\ Quiescent => HostRequestsSum = totalRequests /\ MethodsSum = totalRequests

\* C17 witness: with two requests counted in totalRequests, one of them is in
\* its host's counter and none in a method counter
C17_Witness ==
    /\ totalRequests = 2
    /\ HostRequestsSum = 1
    /\ MethodsSum = 0

\* C18: a step of the reporter and a step of main from <-stop on leave the
\* registry (totalRequests, totalBytes, the method counters, hostMap and every
\* hostStats) and the handlers' state unchanged; a step of a handler leaves
\* the reporter's previous totals and prevSnapshots unchanged; every key of
\* prevSnapshots is a key of hostMap.
C18_ReportsReadOnly ==
    /\ [](DOMAIN prevSnapshots \subseteq DOMAIN hostMap)
    /\ [][(rpc' # rpc \/ panicMsg' # panicMsg) =>
              UNCHANGED <<registry, handlerVars, config, mainVars>>]_vars
    /\ [][mpc' # mpc =>
              UNCHANGED <<registry, handlerVars, config, reporterVars>>]_vars
    /\ [][pc' # pc =>
              UNCHANGED <<prevSnapshots, prevTotalReq, prevTotalBytes>>]_vars

\* C18 witness: a tick has stored its previous totals and a snapshot, and main
\* has printed the final report, with both handlers' requests in the registry
C18_Witness ==
    /\ mpc = "exited"
    /\ Len(finals) = 1
    /\ prevTotalReq > 0
    /\ prevSnapshots # <<>>
    /\ totalRequests = 2
    /\ Cardinality(DOMAIN hostMap) = 2

\* C19: the totals a tick reads satisfy: currTotalBytes is at least the sizes
\* of currTotalReq of the requests that have arrived, hence at least
\* estReqLine * currTotalReq.
C19_BytesCoverRequests ==
    rpc \notin {"idle", "L117"} =>
        /\ loc.currTotalBytes >= estReqLine * loc.currTotalReq
        /\ \E S \in SUBSET Arrived :
              /\ Cardinality(S) = loc.currTotalReq
              /\ loc.currTotalBytes >= SumOf(reqSize, S)

\* C19 witness: a tick has read one request in totalRequests and the bytes of
\* two in totalBytes
C19_Witness ==
    /\ rpc = "L125"
    /\ loc.currTotalReq = 1
    /\ Cardinality(Arrived) = 2
    /\ loc.currTotalBytes = SumOf(reqSize, Arrived)

\* every item, every host line and the global deltas of the tick under way
\* have at least estReqLine bytes per request
LinesCoverBytes ==
    /\ \A i \in 1..Len(items) : items[i].bytes >= estReqLine * items[i].req
    /\ \A i \in 1..Len(printed.hosts) :
          printed.hosts[i].bytes >= estReqLine * printed.hosts[i].req
    /\ rpc \notin {"idle", "L117"} => loc.db >= estReqLine * loc.dr

=============================================================================
